---- MODULE Spec2Model ----
(***************************************************************************)
(* Shape-and-identity model of x_perceiver/models/perceiver.py.            *)
(*                                                                         *)
(* A tensor is modelled by its shape (a sequence of dimension sizes); a    *)
(* parameterised sub-module (PreNorm-wrapped Attention or FeedForward) by  *)
(* a record carrying a unique instance id, so that "is the same instance"  *)
(* is equality of ids.  Exceptions raised by Python or by the tensor       *)
(* library are results with status "raised".                               *)
(***************************************************************************)
EXTENDS Integers, Sequences, FiniteSets, TLC

VARIABLES
    p_model,    \* the Perceiver object (status "none" before construction)
    p_call,     \* arguments of the pending/last Perceiver.forward call
    p_out,      \* what that call returned or raised
    mm_model,   \* outcome of the MMPerceiver(...) constructor call, with its arguments
    tensors,    \* the caller's list of modality tensors (mutable Python list)
    orig,       \* history: that list as the caller created it
    mm_call,    \* arguments of the last MMPerceiver.forward call
    mm_out      \* what that call returned or raised

vars == <<p_model, p_call, p_out, mm_model, tensors, orig, mm_call, mm_out>>

----------------------------------------------------------------------------
\* Bounds of the model.
MaxDepth == 3
MaxSelfPerCross == 2
MaxAxes == 2
MaxBands == 1
MaxModalities == 3

\* Small input sets.
Batches == {1, 2}
AxisSizes == {1, 2}
ChannelCounts == {3, 4}
NumLatents == 2
LatentDim == 5
ClassCounts == {1, 4}
AxisCounts == {1, 2}

----------------------------------------------------------------------------
\* Generic helpers.

Min(a, b) == IF a < b THEN a ELSE b

RECURSIVE Prod(_)
\* product of the sizes of a sequence of axes: einops 'b ... d -> b (...) d'
Prod(s) == IF s = <<>> THEN 1 ELSE Head(s) * Prod(Tail(s))

\* sequences over S of length lo..hi
SeqsOf(S, lo, hi) == UNION {[1..n -> S] : n \in lo..hi}

Last(s) == s[Len(s)]
Front(s) == SubSeq(s, 1, Len(s) - 1)

\* key = None of cached_fn
NoneKey == -1

----------------------------------------------------------------------------
\* Results of calls.

NoShape == <<>>

Returned(shape, applied) ==
    [status |-> "ok", exc |-> "", msg |-> 0, shape |-> shape, applied |-> applied]

Raised(exc, msg, applied) ==
    [status |-> "raised", exc |-> exc, msg |-> msg, shape |-> NoShape, applied |-> applied]

NoCall == [status |-> "none", exc |-> "", msg |-> 0, shape |-> NoShape, applied |-> <<>>]

----------------------------------------------------------------------------
\* helper classes: PreNorm(Attention), PreNorm(FeedForward)

\* a freshly constructed PreNorm-wrapped module instance
NewModule(id, kind, dim, context_dim) ==
    [id |-> id, kind |-> kind, dim |-> dim, context_dim |-> context_dim]

\* PreNorm(dim, Attention(dim, context_dim), context_dim).forward(x, context):
\* LayerNorm(dim) on x, LayerNorm(context_dim) on the context, to_q on x and
\* to_kv on the context each need the matching last dimension; the einsum
\* needs equal batch sizes.  Output has the shape of x.
AttentionApplies(m, x, context) ==
    /\ Last(x) = m.dim
    /\ Last(context) = m.context_dim
    /\ x[1] = context[1]

\* PreNorm(dim, FeedForward(dim)).forward(x)
FeedForwardApplies(m, x) == Last(x) = m.dim

\* cache_fn(f): one call cached_fn(_cache = useCache, key = key).
\* f is the zero-argument constructor; fRaises says that running it raises
\* (IndexError in the closure), in which case nothing is stored.
CachedCall(cache, next, useCache, key, fRaises, kind, dim, context_dim) ==
    IF ~useCache
    THEN IF fRaises
         THEN [raised |-> TRUE, result |-> NewModule(0, kind, dim, 0), cache |-> cache, next |-> next]
         ELSE [raised |-> FALSE, result |-> NewModule(next, kind, dim, context_dim),
               cache |-> cache, next |-> next + 1]
    ELSE IF key \in DOMAIN cache
    THEN [raised |-> FALSE, result |-> cache[key], cache |-> cache, next |-> next]
    ELSE IF fRaises
    THEN [raised |-> TRUE, result |-> NewModule(0, kind, dim, 0), cache |-> cache, next |-> next]
    ELSE [raised |-> FALSE, result |-> NewModule(next, kind, dim, context_dim),
          cache |-> (key :> NewModule(next, kind, dim, context_dim)) @@ cache,
          next |-> next + 1]

\* variant of FourierFeatures that forgets torch.cat((x, orig_x))
FourierFeatures_NoOrig(num_bands) ==
    [k \in 1..num_bands |-> "sin"] \o [k \in 1..num_bands |-> "cos"]

\* fourier_encode, per scalar position: the features appended on the new
\* last axis, in order (cat([sin, cos]) then cat((x, orig_x))).
FourierFeatures(num_bands) ==
    [k \in 1..num_bands |-> "sin"] \o [k \in 1..num_bands |-> "cos"] \o <<"orig_x">>

\* fourier_encode on a tensor of shape x: unsqueeze(-1), then the features
fourier_encode(x, num_bands) == Append(x, Len(FourierFeatures(num_bands)))

\* variant of should_cache that also caches at layer 0
should_cache_AllLayers(i, weight_tie_layers) == weight_tie_layers

\* should_cache = i > 0 and weight_tie_layers
should_cache(i, weight_tie_layers) == i > 0 /\ weight_tie_layers

\* variant of to_logits without the mean-pool over the latent axis
to_logits_NoPool(final_classifier_head, num_classes, x) ==
    IF final_classifier_head THEN <<x[1], x[2], num_classes>> ELSE x

\* to_logits: Reduce('b n d -> b d') + LayerNorm + Linear, or nn.Identity
to_logits(final_classifier_head, num_classes, x) ==
    IF final_classifier_head THEN <<x[1], num_classes>> ELSE x

----------------------------------------------------------------------------
\* class Perceiver

PerceiverConfigs ==
    [num_freq_bands : 0..MaxBands,
     depth : 0..MaxDepth,
     input_channels : ChannelCounts,
     input_axis : 1..MaxAxes,
     num_latents : {NumLatents},
     latent_dim : {LatentDim},
     num_classes : ClassCounts,
     weight_tie_layers : BOOLEAN,
     fourier_encode_data : BOOLEAN,
     self_per_cross_attn : 0..MaxSelfPerCross,
     final_classifier_head : BOOLEAN]

\* fourier_channels and input_dim of Perceiver.__init__
PerceiverInputDim(cfg) ==
    LET fourier_channels ==
            IF cfg.fourier_encode_data
            THEN cfg.input_axis * ((cfg.num_freq_bands * 2) + 1)
            ELSE 0
    IN fourier_channels + cfg.input_channels

EmptyCaches == [cross_attn |-> <<>>, cross_ff |-> <<>>, latent_attn |-> <<>>, latent_ff |-> <<>>]

RECURSIVE BuildSelfAttns(_, _, _, _)
\* for block_ind in range(self_per_cross_attn): self_attns.append([...])
BuildSelfAttns(st, cfg, caching, block_ind) ==
    IF block_ind >= cfg.self_per_cross_attn THEN st
    ELSE LET a == CachedCall(st.caches.latent_attn, st.next, caching, block_ind, FALSE,
                             "latent_attn", cfg.latent_dim, cfg.latent_dim)
             f == CachedCall(st.caches.latent_ff, a.next, caching, block_ind, FALSE,
                             "latent_ff", cfg.latent_dim, cfg.latent_dim)
         IN BuildSelfAttns(
                [st EXCEPT !.next = f.next,
                           !.caches.latent_attn = a.cache,
                           !.caches.latent_ff = f.cache,
                           !.self_attns = Append(@, [self_attn |-> a.result, self_ff |-> f.result])],
                cfg, caching, block_ind + 1)

RECURSIVE PerceiverBuildLayers(_, _, _)
\* for i in range(depth): ... self.layers.append([cross_attn, cross_ff, self_attns])
PerceiverBuildLayers(st, cfg, i) ==
    IF i >= cfg.depth THEN st
    ELSE LET caching == should_cache(i, cfg.weight_tie_layers)
             s1 == BuildSelfAttns([st EXCEPT !.self_attns = <<>>], cfg, caching, 0)
             ca == CachedCall(s1.caches.cross_attn, s1.next, caching, NoneKey, FALSE,
                              "cross_attn", cfg.latent_dim, PerceiverInputDim(cfg))
             cf == CachedCall(s1.caches.cross_ff, ca.next, caching, NoneKey, FALSE,
                              "cross_ff", cfg.latent_dim, cfg.latent_dim)
         IN PerceiverBuildLayers(
                [s1 EXCEPT !.next = cf.next,
                           !.caches.cross_attn = ca.cache,
                           !.caches.cross_ff = cf.cache,
                           !.layers = Append(@, [cross_attn |-> ca.result,
                                                 cross_ff |-> cf.result,
                                                 self_attns |-> s1.self_attns])],
                cfg, i + 1)

\* Perceiver.__init__
PerceiverNew(cfg) ==
    LET st == PerceiverBuildLayers(
                  [next |-> 1, caches |-> EmptyCaches, self_attns |-> <<>>, layers |-> <<>>],
                  cfg, 0)
    IN [status |-> "built", cfg |-> cfg, layers |-> st.layers]

RECURSIVE PerceiverSelfAttns(_, _, _)
\* for self_attn, self_ff in self_attns: x = self_attn(x) + x; x = self_ff(x) + x
PerceiverSelfAttns(self_attns, x, applied) ==
    IF self_attns = <<>> THEN Returned(x, applied)
    ELSE LET blk == Head(self_attns)
         IN IF ~AttentionApplies(blk.self_attn, x, x)
            THEN Raised("RuntimeError", 0, applied)
            ELSE IF ~FeedForwardApplies(blk.self_ff, x)
            THEN Raised("RuntimeError", 0, Append(applied, blk.self_attn.id))
            ELSE PerceiverSelfAttns(Tail(self_attns), x,
                                    applied \o <<blk.self_attn.id, blk.self_ff.id>>)

RECURSIVE PerceiverLayers(_, _, _, _)
\* for cross_attn, cross_ff, self_attns in self.layers: ...
PerceiverLayers(layers, x, data, applied) ==
    IF layers = <<>> THEN Returned(x, applied)
    ELSE LET l == Head(layers)
         IN IF ~AttentionApplies(l.cross_attn, x, data)
            THEN Raised("RuntimeError", 0, applied)
            ELSE IF ~FeedForwardApplies(l.cross_ff, x)
            THEN Raised("RuntimeError", 0, Append(applied, l.cross_attn.id))
            ELSE LET r == PerceiverSelfAttns(l.self_attns, x,
                                             applied \o <<l.cross_attn.id, l.cross_ff.id>>)
                 IN IF r.status = "raised" THEN r
                    ELSE PerceiverLayers(Tail(layers), r.shape, data, r.applied)

\* the flattened data Perceiver.forward feeds to cross-attention
PerceiverFlatten(cfg, data) ==
    LET b == data[1]
        axis == SubSeq(data, 2, Len(data) - 1)
        pos == Append(axis, Len(axis))                     \* stack(meshgrid(...), dim = -1)
        enc == fourier_encode(pos, cfg.num_freq_bands)
        enc_pos == <<b>> \o Append(axis, enc[Len(enc) - 1] * Last(enc))
        cat == IF cfg.fourier_encode_data
               THEN Append(Front(data), Last(data) + Last(enc_pos))
               ELSE data
    IN <<b, Prod(axis), Last(cat)>>

\* Perceiver.forward(data, return_embeddings)
PerceiverForward(m, data, return_embeddings) ==
    LET cfg == m.cfg
        b == data[1]
        axis == SubSeq(data, 2, Len(data) - 1)
    IN IF Len(axis) # cfg.input_axis
       THEN Raised("AssertionError", 0, <<>>)
       ELSE LET flat == PerceiverFlatten(cfg, data)
                x == <<b, cfg.num_latents, cfg.latent_dim>>
                r == PerceiverLayers(m.layers, x, flat, <<>>)
            IN IF r.status = "raised" THEN r
               ELSE IF return_embeddings THEN r
               ELSE Returned(to_logits(cfg.final_classifier_head, cfg.num_classes, r.shape),
                             r.applied)

----------------------------------------------------------------------------
\* class MMPerceiver

\* Python values found in input_axes: a tuple of axis sizes, or an int
PyTuple(s) == [type |-> "tuple", items |-> s]
PyInt(n) == [type |-> "int", items |-> <<n>>]
IntOf(v) == v.items[1]

RECURSIVE Repeat(_, _)
Repeat(s, k) == IF k <= 0 THEN <<>> ELSE s \o Repeat(s, k - 1)

\* axis * k: integer product, or tuple repetition
PyMul(v, k) == IF v.type = "int" THEN PyInt(IntOf(v) * k) ELSE PyTuple(Repeat(v.items, k))

\* f_channels + i_channels with i_channels an int: defined on ints only
PyAddRaises(v) == v.type # "int"

\* len(v): defined on tuples only
PyLenRaises(v) == v.type # "tuple"

\* variant of LengthsAgree that forgets the input_channels assertion
LengthsAgree_OnlyAxes(args) == Len(args.input_axes) = args.modalities

\* the two assertions that open MMPerceiver.__init__
LengthsAgree(args) ==
    /\ Len(args.input_channels) = Len(args.input_axes)
    /\ Len(args.input_axes) = args.modalities

\* fourier_channels, one entry per element of input_axes
MMFourierChannels(args) ==
    [k \in 1..Len(args.input_axes) |->
        IF args.fourier_encode_data
        THEN PyMul(args.input_axes[k], (args.num_freq_bands * 2) + 1)
        ELSE PyInt(0)]

\* input_dims, one entry per pair of zip(fourier_channels, input_channels)
MMInputDims(args) ==
    LET fc == MMFourierChannels(args)
        n == Min(Len(fc), Len(args.input_channels))
    IN IF \E k \in 1..n : PyAddRaises(fc[k])
       THEN [raised |-> TRUE, dims |-> <<>>]
       ELSE [raised |-> FALSE, dims |-> [k \in 1..n |-> IntOf(fc[k]) + args.input_channels[k]]]

\* The free variable i of the lambda built in `for i in range(modalities)`:
\* it is a cell of __init__, rebound by `for i in range(depth)`; the list
\* comprehension's own i is a different variable.  Value seen by the lambda of
\* modality m when it runs while building depth layer i.
ClosureIndex(i, m) == i

RECURSIVE MMBuildCross(_, _, _, _, _, _)
\* cross_list = [(cross_attn_funcs[i](**cache_args), get_cross_ff(**cache_args))
\*               for i in range(modalities)]
MMBuildCross(st, args, input_dims, caching, i, m) ==
    IF m >= args.modalities \/ st.raised THEN st
    ELSE LET k == ClosureIndex(i, m)
             outOfRange == k >= Len(input_dims)
             ca == CachedCall(st.caches.cross_attn[m + 1], st.next, caching, NoneKey, outOfRange,
                              "cross_attn", args.latent_dim,
                              IF outOfRange THEN 0 ELSE input_dims[k + 1])
             cf == CachedCall(st.caches.cross_ff, ca.next, caching, NoneKey, FALSE,
                              "cross_ff", args.latent_dim, args.latent_dim)
         IN IF ca.raised
            THEN [st EXCEPT !.raised = TRUE, !.exc = "IndexError"]
            ELSE MMBuildCross(
                     [st EXCEPT !.next = cf.next,
                                !.caches.cross_attn[m + 1] = ca.cache,
                                !.caches.cross_ff = cf.cache,
                                !.cross_list = @ \o <<ca.result, cf.result>>],
                     args, input_dims, caching, i, m + 1)

ModuleList(items) == [kind |-> "ModuleList", items |-> items]

RECURSIVE MMBuildLayers(_, _, _, _)
\* for i in range(depth): ... self.layers.append(nn.ModuleList([*cross_list, self_attns]))
MMBuildLayers(st, args, input_dims, i) ==
    IF i >= args.depth \/ st.raised THEN st
    ELSE LET caching == should_cache(i, args.weight_tie_layers)
             s1 == BuildSelfAttns([st EXCEPT !.self_attns = <<>>], args, caching, 0)
             s2 == MMBuildCross([s1 EXCEPT !.cross_list = <<>>], args, input_dims, caching, i, 0)
         IN IF s2.raised THEN s2
            ELSE MMBuildLayers(
                     [s2 EXCEPT !.layers =
                          Append(@, ModuleList(Append(s2.cross_list, ModuleList(s2.self_attns))))],
                     args, input_dims, i + 1)

NoMM == [status |-> "none", exc |-> "", args |-> <<>>, input_dims |-> <<>>,
         layers |-> <<>>, allocated |-> 0]

MMFailed(exc, args, allocated) ==
    [status |-> "failed", exc |-> exc, args |-> args, input_dims |-> <<>>,
     layers |-> <<>>, allocated |-> allocated]

\* MMPerceiver.__init__
MMPerceiverNew(args) ==
    IF ~LengthsAgree(args) THEN MMFailed("AssertionError", args, 0)
    ELSE LET d == MMInputDims(args)
         IN IF d.raised THEN MMFailed("TypeError", args, 0)
            ELSE LET st == MMBuildLayers(
                               [next |-> 1, raised |-> FALSE, exc |-> "",
                                caches |-> [cross_attn |-> [m \in 1..args.modalities |-> <<>>],
                                            cross_ff |-> <<>>,
                                            latent_attn |-> <<>>,
                                            latent_ff |-> <<>>],
                                self_attns |-> <<>>, cross_list |-> <<>>, layers |-> <<>>],
                               args, d.dims, 0)
                 IN IF st.raised THEN MMFailed(st.exc, args, st.next - 1)
                    ELSE [status |-> "built", exc |-> "", args |-> args, input_dims |-> d.dims,
                          layers |-> st.layers, allocated |-> st.next - 1]

\* the modules the constructor stored for modality m (0-based) in depth layer d (1-based)
CrossAttnOf(layers, d, m) == layers[d].items[2 * m + 1]
CrossFFOf(layers, d, m) == layers[d].items[2 * m + 2]
SelfAttnsOf(layers, d) == Last(layers[d].items).items

\* variant of MMPrepare that checks every tensor against input_axes[0]
MMPrepare_FirstAxes(m, data, i) ==
    LET a == m.args
        b == data[1]
        axis == SubSeq(data, 2, Len(data) - 1)
    IN IF PyLenRaises(a.input_axes[1]) THEN Raised("TypeError", 0, <<>>)
       ELSE IF Len(axis) # Len(a.input_axes[1].items)
       THEN Raised("AssertionError", i + 1, <<>>)
       ELSE Returned(<<b, Prod(axis), Last(data)>>, <<>>)

\* one modality of the first loop of MMPerceiver.forward: the tensor that
\* replaces tensors[i], or the exception raised
MMPrepare(m, data, i) ==
    LET a == m.args
        b == data[1]
        axis == SubSeq(data, 2, Len(data) - 1)
    IN IF PyLenRaises(a.input_axes[i + 1]) THEN Raised("TypeError", 0, <<>>)
       ELSE IF Len(axis) # Len(a.input_axes[i + 1].items)
       THEN Raised("AssertionError", i + 1, <<>>)
       ELSE IF ~a.fourier_encode_data THEN Returned(<<b, Prod(axis), Last(data)>>, <<>>)
       ELSE IF axis = <<>> THEN Raised("IndexError", 0, <<>>)
       ELSE LET enc_pos == <<b>> \o fourier_encode(<<axis[1]>>, a.num_freq_bands)
            IN IF Front(data) # Front(enc_pos) THEN Raised("RuntimeError", 0, <<>>)
               ELSE Returned(<<b, Prod(axis), Last(data) + Last(enc_pos)>>, <<>>)

RECURSIVE MMPrepareAll(_, _, _)
\* for i in range(self.modalities): ...; tensors[i] = data
\* result: the list as the loop left it, and the exception if one was raised
MMPrepareAll(m, list, i) ==
    IF i >= m.args.modalities THEN [list |-> list, out |-> Returned(<<>>, <<>>)]
    ELSE LET r == MMPrepare(m, list[i + 1], i)
         IN IF r.status = "raised" THEN [list |-> list, out |-> r]
            ELSE MMPrepareAll(m, [list EXCEPT ![i + 1] = r.shape], i + 1)

\* what calling self.layers[k] as a function raises: nn.ModuleList defines no
\* forward; which exception depends on the library version
ModuleListCallErrors == {"TypeError", "NotImplementedError"}

RECURSIVE MMModalities(_, _, _, _, _, _)
\* for i in range(self.modalities): cross_attn = self.layers[i*2]; ...
MMModalities(m, list, x, applied, i, callErr) ==
    IF i >= m.args.modalities THEN Returned(x, applied)
    ELSE IF i * 2 >= Len(m.layers) \/ (i * 2) + 1 >= Len(m.layers)
    THEN Raised("IndexError", 0, applied)
    ELSE LET cross_attn == m.layers[(i * 2) + 1]
             cross_ff == m.layers[(i * 2) + 2]
         IN IF cross_attn.kind = "ModuleList" THEN Raised(callErr, 0, applied)
            ELSE IF ~AttentionApplies(cross_attn, x, list[i + 1])
            THEN Raised("RuntimeError", 0, applied)
            ELSE IF cross_ff.kind = "ModuleList"
            THEN Raised(callErr, 0, Append(applied, cross_attn.id))
            ELSE MMModalities(m, list, x, applied \o <<cross_attn.id, cross_ff.id>>, i + 1, callErr)

RECURSIVE MMLayers(_, _, _, _, _, _)
\* for layer in self.layers: ...
MMLayers(m, list, x, applied, d, callErr) ==
    IF d > Len(m.layers) THEN Returned(x, applied)
    ELSE LET r == MMModalities(m, list, x, applied, 0, callErr)
         IN IF r.status = "raised" THEN r
            ELSE IF Len(Last(m.layers).items) # 2    \* self_attn, self_ff = self.layers[-1]
            THEN Raised("ValueError", 0, r.applied)
            ELSE LET self_attn == Last(m.layers).items[1]
                     self_ff == Last(m.layers).items[2]
                 IN IF self_attn.kind = "ModuleList" THEN Raised(callErr, 0, r.applied)
                    ELSE IF self_ff.kind = "ModuleList"
                    THEN Raised(callErr, 0, Append(r.applied, self_attn.id))
                    ELSE MMLayers(m, list, r.shape,
                                  r.applied \o <<self_attn.id, self_ff.id>>, d + 1, callErr)

\* MMPerceiver.forward(tensors, return_embeddings): the list afterwards and the outcome
MMPerceiverForward(m, list, return_embeddings, callErr) ==
    LET p == MMPrepareAll(m, list, 0)
    IN IF p.out.status = "raised" THEN p
       ELSE LET b == list[m.args.modalities][1]    \* b of the last loop iteration
                x == <<b, m.args.num_latents, m.args.latent_dim>>
                r == MMLayers(m, p.list, x, <<>>, 1, callErr)
            IN [list |-> p.list,
                out |-> IF r.status = "raised" \/ return_embeddings THEN r
                        ELSE Returned(to_logits(m.args.final_classifier_head,
                                                m.args.num_classes, r.shape), r.applied)]

\* input tensors: (batch, *axes, channels)
PerceiverInputs ==
    {<<b>> \o a \o <<c>> : b \in Batches, a \in SeqsOf(AxisSizes, 1, MaxAxes), c \in ChannelCounts}

NoModel == [status |-> "none", cfg |-> <<>>, layers |-> <<>>]
NoArgs == [data |-> <<>>, return_embeddings |-> FALSE]

\* constructor arguments of MMPerceiver
AxesLists ==
    UNION {{[k \in 1..n |-> PyTuple([j \in 1..c[k] |-> 2])] : c \in [1..n -> AxisCounts]}
             \cup {[k \in 1..n |-> PyInt(c[k])] : c \in [1..n -> AxisCounts]}
           : n \in 1..MaxModalities}

ChannelLists == {[k \in 1..n |-> 2 + k] : n \in 1..MaxModalities}

MMArgs ==
    [num_freq_bands : {MaxBands},
     depth : 0..MaxDepth,
     modalities : 1..(MaxModalities + 1),
     input_channels : ChannelLists,
     input_axes : AxesLists,
     num_latents : {NumLatents},
     latent_dim : {LatentDim},
     num_classes : {4},
     weight_tie_layers : BOOLEAN,
     fourier_encode_data : BOOLEAN,
     self_per_cross_attn : {1, MaxSelfPerCross},
     final_classifier_head : {TRUE}]

\* lists of modality tensors a caller passes to a model built from args:
\* one tensor per modality, common batch size, the configured channel counts
TensorLists(args) ==
    {[k \in 1..args.modalities |-> <<b>> \o [j \in 1..c[k] |-> s] \o <<args.input_channels[k]>>]
       : b \in Batches, s \in AxisSizes, c \in [1..args.modalities -> AxisCounts]}

Init ==
    /\ p_model = NoModel
    /\ p_call = NoArgs
    /\ p_out = NoCall
    /\ mm_model = NoMM
    /\ tensors = <<>>
    /\ orig = <<>>
    /\ mm_call = [list |-> <<>>, return_embeddings |-> FALSE]
    /\ mm_out = NoCall

\* model = Perceiver(**cfg)
PConstruct ==
    /\ p_model.status = "none"
    /\ mm_model.status = "none"
    /\ \E cfg \in PerceiverConfigs : p_model' = PerceiverNew(cfg)
    /\ UNCHANGED <<p_call, p_out, mm_model, tensors, orig, mm_call, mm_out>>

\* model(data, return_embeddings = ...)
PForward ==
    /\ p_model.status = "built"
    /\ p_out.status = "none"
    /\ \E data \in PerceiverInputs, return_embeddings \in BOOLEAN :
          /\ p_call' = [data |-> data, return_embeddings |-> return_embeddings]
          /\ p_out' = PerceiverForward(p_model, data, return_embeddings)
    /\ UNCHANGED <<p_model, mm_model, tensors, orig, mm_call, mm_out>>

\* the caller drops the result; the model can be called again
PDiscard ==
    /\ p_out.status # "none"
    /\ p_call' = NoArgs
    /\ p_out' = NoCall
    /\ UNCHANGED <<p_model, mm_model, tensors, orig, mm_call, mm_out>>

\* model = MMPerceiver(**args)
MMConstruct ==
    /\ p_model.status = "none"
    /\ mm_model.status = "none"
    /\ \E args \in MMArgs : mm_model' = MMPerceiverNew(args)
    /\ UNCHANGED <<p_model, p_call, p_out, tensors, orig, mm_call, mm_out>>

\* the caller builds its list of modality tensors
MMNewTensors ==
    /\ mm_model.status = "built"
    /\ tensors = <<>>
    /\ \E list \in TensorLists(mm_model.args) :
          /\ tensors' = list
          /\ orig' = list
    /\ UNCHANGED <<p_model, p_call, p_out, mm_model, mm_call, mm_out>>

\* model(tensors, return_embeddings = ...) on the caller's list
MMForward ==
    /\ mm_model.status = "built"
    /\ tensors # <<>>
    /\ \E return_embeddings \in BOOLEAN, callErr \in ModuleListCallErrors :
          LET r == MMPerceiverForward(mm_model, tensors, return_embeddings, callErr)
          IN /\ tensors' = r.list
             /\ mm_out' = r.out
             /\ mm_call' = [list |-> tensors, return_embeddings |-> return_embeddings]
    /\ UNCHANGED <<p_model, p_call, p_out, mm_model, orig>>

Next ==
    \/ PConstruct
    \/ PForward
    \/ PDiscard
    \/ MMConstruct
    \/ MMNewTensors
    \/ MMForward

Spec == Init /\ [][Next]_vars

----------------------------------------------------------------------------
\* Properties.

\* spatial axes of a tensor shape (batch, *axes, channels)
AxesOf(data) == SubSeq(data, 2, Len(data) - 1)

\* instance ids held by one layer of Perceiver.layers
BlockIds(blk) == {blk.self_attn.id, blk.self_ff.id}
LayerIds(l) ==
    {l.cross_attn.id, l.cross_ff.id} \cup UNION {BlockIds(l.self_attns[k]) : k \in DOMAIN l.self_attns}

PCalled == p_model.status = "built" /\ p_out.status # "none"

PValidInput ==
    /\ Len(AxesOf(p_call.data)) = p_model.cfg.input_axis
    /\ Last(p_call.data) = p_model.cfg.input_channels

\* C1: Perceiver.forward on an input with input_axis spatial axes and
\* input_channels channels returns a tensor of shape (batch, num_latents,
\* latent_dim) when return_embeddings is True, whatever num_classes and
\* final_classifier_head are, and of shape (batch, num_classes) when
\* return_embeddings is False and the classification head is attached.
C1_ForwardShape ==
    (PCalled /\ PValidInput) =>
        /\ p_out.status = "ok"
        /\ p_call.return_embeddings =>
               p_out.shape = <<p_call.data[1], p_model.cfg.num_latents, p_model.cfg.latent_dim>>
        /\ (~p_call.return_embeddings /\ p_model.cfg.final_classifier_head) =>
               p_out.shape = <<p_call.data[1], p_model.cfg.num_classes>>

C1_Witness ==
    /\ PCalled /\ PValidInput
    /\ p_model.cfg.depth = 2 /\ p_model.cfg.self_per_cross_attn = 2
    /\ p_model.cfg.fourier_encode_data /\ p_model.cfg.final_classifier_head
    /\ p_model.cfg.num_classes = 4
    /\ ~p_call.return_embeddings
    /\ p_call.data = <<2, 1, 2, 3>>
    /\ p_out.shape = <<2, 4>>
    /\ Len(p_out.applied) = 12

\* C3: with weight_tie_layers and depth > 1 every Perceiver layer of index
\* >= 1 holds the same instances as layer index 1 (cross-attention, cross
\* feed-forward and, per block index, latent self-attention and latent
\* feed-forward); layer index 0 shares no instance with another layer;
\* within a layer all instances are distinct; without weight_tie_layers no two
\* layers share an instance.
C3_WeightTying ==
    p_model.status = "built" =>
        LET L == p_model.layers
            n == Len(L)
        IN /\ \A i \in 1..n : Cardinality(LayerIds(L[i])) = 2 + 2 * Len(L[i].self_attns)
           /\ \A j \in 2..n : LayerIds(L[1]) \cap LayerIds(L[j]) = {}
           /\ p_model.cfg.weight_tie_layers =>
                  \A j \in 2..n :
                      /\ L[j].cross_attn.id = L[2].cross_attn.id
                      /\ L[j].cross_ff.id = L[2].cross_ff.id
                      /\ \A k \in DOMAIN L[j].self_attns :
                             /\ L[j].self_attns[k].self_attn.id = L[2].self_attns[k].self_attn.id
                             /\ L[j].self_attns[k].self_ff.id = L[2].self_attns[k].self_ff.id
           /\ ~p_model.cfg.weight_tie_layers =>
                  \A i, j \in 1..n : i # j => LayerIds(L[i]) \cap LayerIds(L[j]) = {}

C3_Witness ==
    /\ p_model.status = "built"
    /\ p_model.cfg.weight_tie_layers
    /\ p_model.cfg.depth = 3
    /\ p_model.cfg.self_per_cross_attn = 2
    /\ p_model.layers[3].self_attns[2].self_ff.id = p_model.layers[2].self_attns[2].self_ff.id
    /\ p_model.layers[3].cross_attn.id = p_model.layers[2].cross_attn.id
    /\ p_model.layers[1].cross_attn.id # p_model.layers[2].cross_attn.id

\* C7: fourier_encode yields num_bands sines, num_bands cosines and the raw
\* position last, 2*num_bands + 1 values per position; in every
\* Perceiver.forward call that passes the axis check the channel width of
\* the flattened data equals the context dimension every cross-attention was
\* built with: the data's channels + input_axis*(2*num_freq_bands + 1) with
\* Fourier encoding, the data's channels unchanged without; for an input
\* with input_channels channels that is the width the constructor computed.
C7_InputWidth ==
    p_model.status = "built" =>
        LET cfg == p_model.cfg
            nb == cfg.num_freq_bands
            ff == FourierFeatures(nb)
        IN /\ Len(ff) = 2 * nb + 1
           /\ \A k \in 1..nb : ff[k] = "sin" /\ ff[nb + k] = "cos"
           /\ ff[2 * nb + 1] = "orig_x"
           /\ (p_out.status # "none" /\ Len(AxesOf(p_call.data)) = cfg.input_axis) =>
                 LET width == Last(PerceiverFlatten(cfg, p_call.data))
                 IN /\ width = Last(p_call.data)
                               + (IF cfg.fourier_encode_data THEN cfg.input_axis * (2 * nb + 1) ELSE 0)
                    /\ Last(p_call.data) = cfg.input_channels =>
                           \A i \in DOMAIN p_model.layers :
                               p_model.layers[i].cross_attn.context_dim = width

C7_Witness ==
    /\ PCalled /\ PValidInput
    /\ p_model.cfg.fourier_encode_data
    /\ p_model.cfg.num_freq_bands = 1
    /\ p_model.cfg.input_axis = 2
    /\ p_model.cfg.input_channels = 3
    /\ p_model.cfg.depth = 1
    /\ p_model.layers[1].cross_attn.context_dim = 9
    /\ p_out.status = "ok"

MMCalled == mm_model.status = "built" /\ mm_out.status # "none"

\* every entry of input_axes is a tuple of axis sizes
AxesAreTuples(args) == \A k \in DOMAIN args.input_axes : args.input_axes[k].type = "tuple"

\* modality indices (0-based) whose tensor in the last call has an axis count
\* other than the configured one
ConfiguredAxes(v) == IF v.type = "tuple" THEN Len(v.items) ELSE IntOf(v)

Offending ==
    {i \in 0..(mm_model.args.modalities - 1) :
        Len(AxesOf(mm_call.list[i + 1])) # ConfiguredAxes(mm_model.args.input_axes[i + 1])}

SetMin(S) == CHOOSE x \in S : \A y \in S : x <= y

C5_ConstructionFails ==
    (/\ mm_model.status # "none"
     /\ ~(/\ Len(mm_model.args.input_channels) = mm_model.args.modalities
          /\ Len(mm_model.args.input_axes) = mm_model.args.modalities)) =>
        /\ mm_model.status = "failed"
        /\ mm_model.exc = "AssertionError"
        /\ mm_model.allocated = 0
        /\ mm_model.layers = <<>>
        /\ tensors = <<>>
        /\ mm_out.status = "none"
        /\ ~ENABLED MMForward

C5_Witness ==
    /\ mm_model.status = "failed"
    /\ mm_model.exc = "AssertionError"
    /\ mm_model.args.modalities = 3
    /\ Len(mm_model.args.input_channels) = 2
    /\ Len(mm_model.args.input_axes) = 3

\* the configuration C2 is about: m >= 1 one-axis modalities given as
\* tuples, depth >= 1, one channel count per modality
C2_Config(args) ==
    /\ args.modalities >= 1
    /\ args.depth >= 1
    /\ Len(args.input_axes) = args.modalities
    /\ Len(args.input_channels) = args.modalities
    /\ \A k \in DOMAIN args.input_axes :
           args.input_axes[k].type = "tuple" /\ Len(args.input_axes[k].items) = 1

\* C2: for every such configuration the constructor succeeds, and forward on
\* m tensors of one spatial axis each, the configured channels and a common
\* batch size b returns a tensor of shape (b, num_classes).
C2_EndToEnd ==
    (mm_model.status # "none" /\ C2_Config(mm_model.args)) =>
        /\ mm_model.status = "built"
        /\ (mm_out.status # "none" /\ mm_call.list = orig /\ ~mm_call.return_embeddings
            /\ \A k \in DOMAIN orig : Len(orig[k]) = 3) =>
               /\ mm_out.status = "ok"
               /\ mm_out.shape = <<orig[1][1], mm_model.args.num_classes>>

\* C4: in every constructed MMPerceiver, at every depth layer, distinct
\* modalities hold distinct cross-attention instances and distinct
\* cross-feed-forward instances, with and without weight_tie_layers.
C4_PerModalityParameters ==
    mm_model.status = "built" =>
        \A d \in DOMAIN mm_model.layers :
            \A i, j \in 0..(mm_model.args.modalities - 1) :
                i # j =>
                    /\ CrossAttnOf(mm_model.layers, d, i).id # CrossAttnOf(mm_model.layers, d, j).id
                    /\ CrossFFOf(mm_model.layers, d, i).id # CrossFFOf(mm_model.layers, d, j).id

RECURSIVE ExpectedOrder(_, _)
\* the ids C8 expects forward to apply, layer d onwards: per layer, per
\* modality its cross-attention then its cross feed-forward, then the
\* layer's latent self-attention and feed-forward
ExpectedOrder(m, d) ==
    IF d > Len(m.layers) THEN <<>>
    ELSE LET RECURSIVE cross(_)
             cross(i) == IF i >= m.args.modalities THEN <<>>
                         ELSE <<CrossAttnOf(m.layers, d, i).id, CrossFFOf(m.layers, d, i).id>>
                              \o cross(i + 1)
             RECURSIVE selfs(_)
             selfs(k) == IF k > Len(SelfAttnsOf(m.layers, d)) THEN <<>>
                         ELSE <<SelfAttnsOf(m.layers, d)[k].self_attn.id,
                                SelfAttnsOf(m.layers, d)[k].self_ff.id>> \o selfs(k + 1)
         IN cross(0) \o selfs(1) \o ExpectedOrder(m, d + 1)

\* C8: a forward call whose tensors pass validation applies, for each depth
\* layer in order, the modules stored in that layer: for each modality in
\* index order its cross-attention then its cross feed-forward, and after
\* all modalities the layer's latent self-attention + feed-forward.
C8_LayerOrdering ==
    (MMCalled /\ AxesAreTuples(mm_model.args) /\ Offending = {}) =>
        mm_out.applied = ExpectedOrder(mm_model, 1)

\* C9: in every constructed MMPerceiver the cross-attention of modality i at
\* every depth layer has context dimension input_channels[i] + the Fourier
\* channel count of modality i.
C9_CrossAttnDims ==
    mm_model.status = "built" =>
        LET a == mm_model.args
        IN \A d \in DOMAIN mm_model.layers :
               \A i \in 0..(a.modalities - 1) :
                   CrossAttnOf(mm_model.layers, d, i).context_dim =
                       a.input_channels[i + 1]
                       + (IF a.fourier_encode_data
                          THEN IntOf(a.input_axes[i + 1]) * ((a.num_freq_bands * 2) + 1)
                          ELSE 0)

\* C10: MMPerceiver.forward leaves the caller's list of modality tensors as
\* the caller created it, whether it returns or raises.
C10_InputsUnchanged == tensors = orig

====
